---- MODULE Spec2Model ----
(***************************************************************************)
(* A model of the inrith interval library (src/inrith): the Interval       *)
(* constructor and its endpoint normalisation, membership, the subset      *)
(* order, intersection, the binary arithmetic wrapper bin_op, and the      *)
(* endpoint sweep of IntervalUnion.                                        *)
(*                                                                         *)
(* Numbers.  Bounds of intervals are even integers and the two infinities; *)
(* the values tested for membership are all integers of the range, so the  *)
(* odd integers are points strictly between two neighbouring bounds.       *)
(* float("inf") is PosInf, a number above every finite value of the model. *)
(* The int/float distinction of the source is not modelled.                *)
(***************************************************************************)
EXTENDS Integers, Sequences, FiniteSets, TLC

(***************************************************************************)
(* pc        the operation called last: "idle" before any call             *)
(* args      the arguments of the last Interval(...) call                  *)
(* made      its outcome: the Interval returned or the exception raised    *)
(* a, b, c   the operands of the last comparison, intersection or          *)
(*           arithmetic call                                               *)
(* rel       the results of <= and == on the operands                      *)
(* meet      the outcome of a & b                                          *)
(* arith     the operator of the last arithmetic call and its outcome      *)
(* src       the Intervals handed to IntervalUnion                         *)
(* endpoints the sorted endpoint list of the last IntervalUnion call       *)
(* union     the outcome of IntervalUnion(src)                             *)
(* again     the outcome of IntervalUnion on the intervals of union        *)
(* logres    the base of the last log call, the Interval its unary         *)
(*           wrapper computed, and the outcome of the call                 *)
(***************************************************************************)
VARIABLES pc, args, made, a, b, c, rel, meet, arith, src, endpoints, union, again,
          logres

vars == <<pc, args, made, a, b, c, rel, meet, arith, src, endpoints, union, again,
          logres>>

----------------------------------------------------------------------------
(* Bounds of the model *)

MaxB == 1

(* the largest number of Intervals handed to IntervalUnion, and the      *)
(* largest bound of such an Interval (halved)                            *)
MaxN == 3
MaxU == 4

(* the largest argument of log is 2^MaxL *)
MaxL == 3

PosInf == 1000
NegInf == -PosInf

FiniteVals == {2 * k : k \in -MaxB..MaxB}
Vals == FiniteVals \cup {NegInf, PosInf}
FinitePoints == (-(2 * MaxB) - 1)..(2 * MaxB + 1)
Points == FinitePoints \cup {NegInf, PosInf}

UnionVals == {2 * k : k \in 0..MaxU}
UnionPoints == -1..(2 * MaxU + 1)

----------------------------------------------------------------------------
(* class Endnotes(IntEnum) *)

OPENED == 2
CLOSED == 0
RIGHT_OPEN == 1
LEFT_OPEN == -1
AUTO == 7

(* an integer that is no member of Endnotes *)
UNSUPPORTED == 3

Modes == {OPENED, CLOSED, RIGHT_OPEN, LEFT_OPEN, AUTO, UNSUPPORTED}

SOME_SHIT ==
    [e \in {OPENED, CLOSED, RIGHT_OPEN, LEFT_OPEN} |->
        CASE e = OPENED -> <<TRUE, TRUE>>
          [] e = CLOSED -> <<FALSE, FALSE>>
          [] e = RIGHT_OPEN -> <<FALSE, TRUE>>
          [] e = LEFT_OPEN -> <<TRUE, FALSE>>]

(* the keyword arguments left_open / right_open: None, True or False *)
FlagArgs == {"None", "True", "False"}

----------------------------------------------------------------------------
(* Outcome of a call: the value it returns, or the exception it raises *)

Returned(v) == [raised |-> "none", value |-> <<v>>]
Raised(e) == [raised |-> e, value |-> <<>>]

Abs(x) == IF x < 0 THEN -x ELSE x

(* Python's  p >= q  on two bools *)
BoolGe(p, q) == p \/ ~q

----------------------------------------------------------------------------
(* class Interval *)

empty(self) == (self.left_open \/ self.right_open) /\ self.inf = self.sup

left_bounded(self) == self.inf > NegInf \/ empty(self)

right_bounded(self) == self.sup < PosInf \/ empty(self)

(* the assertion switched off: every pair of bounds passes *)
AssertBoundsOff(infimum, supremum) == TRUE

(* assert infimum <= supremum *)
AssertBounds(infimum, supremum) == infimum <= supremum

(* __handle_endnotes: the pair (left_open, right_open) set from the mode *)
handle_endnotes(inf, sup, endnotes) ==
    IF endnotes = AUTO
    THEN <<Abs(inf) = PosInf, Abs(sup) = PosInf>>
    ELSE SOME_SHIT[endnotes]

(* the last two statements of __init__, in their order: the right side is *)
(* normalised on the interval whose left side is already normalised       *)
normalize(s0) ==
    LET s1 == [s0 EXCEPT !.left_open = BoolGe(s0.left_open, left_bounded(s0))]
    IN [s1 EXCEPT !.right_open = BoolGe(s1.right_open, right_bounded(s1))]

Interval(infimum, supremum, endnotes, left_open, right_open) ==
    IF ~AssertBounds(infimum, supremum)
    THEN Raised("AssertionError")
    ELSE IF left_open = "None" \/ right_open = "None"
    THEN IF endnotes # AUTO /\ endnotes \notin DOMAIN SOME_SHIT
         THEN Raised("KeyError")
         ELSE LET f == handle_endnotes(infimum, supremum, endnotes)
              IN Returned(normalize([inf |-> infimum, sup |-> supremum,
                                     left_open |-> f[1], right_open |-> f[2]]))
    ELSE Returned(normalize([inf |-> infimum, sup |-> supremum,
                             left_open |-> (left_open = "True"),
                             right_open |-> (right_open = "True")]))

(* every Interval the constructor can return on bounds of V *)
IntervalsOver(V) ==
    {o.value[1] :
        o \in {r \in {Interval(i, s, m, lo, ro) :
                        i \in V, s \in V, m \in Modes,
                        lo \in FlagArgs, ro \in FlagArgs} :
               r.raised = "none"}}

AllIntervals == IntervalsOver(Vals)

UnionInputs == IntervalsOver(UnionVals)

FiniteIntervals == {i \in AllIntervals : i.inf \in FiniteVals /\ i.sup \in FiniteVals}

EMPTY == Interval(0, 0, OPENED, "None", "None").value[1]

----------------------------------------------------------------------------
NoUnion == [raised |-> "none", intervals |-> <<>>, calls |-> <<>>]

NoArgs == [infimum |-> 0, supremum |-> 0, endnotes |-> AUTO,
           left_open |-> "None", right_open |-> "None"]

Init ==
    /\ pc = "idle"
    /\ args = NoArgs
    /\ made = Returned(EMPTY)
    /\ a = EMPTY /\ b = EMPTY /\ c = EMPTY
    /\ rel = [aa |-> TRUE, ab |-> TRUE, ba |-> TRUE, bc |-> TRUE, ac |-> TRUE,
              eq |-> TRUE]
    /\ meet = Returned(EMPTY)
    /\ arith = [operator |-> "add", out |-> Returned(EMPTY)]
    /\ src = {}
    /\ endpoints = <<>>
    /\ union = NoUnion
    /\ again = NoUnion
    /\ logres = [base_exp |-> 1, applied |-> Returned(EMPTY),
                 out |-> Returned(EMPTY)]

(* Every operation is a pure function of its arguments, so each behaviour *)
(* makes one call, from the idle state, on arguments drawn from the model's *)
(* values.                                                                *)

(* Interval(infimum, supremum, endnotes, left_open=..., right_open=...) *)
Construct ==
    /\ pc = "idle"
    /\ \E i \in Vals, s \in Vals, m \in Modes, lo \in FlagArgs, ro \in FlagArgs :
        /\ pc' = "Interval"
        /\ args' = [infimum |-> i, supremum |-> s, endnotes |-> m,
                    left_open |-> lo, right_open |-> ro]
        /\ made' = Interval(i, s, m, lo, ro)
        /\ UNCHANGED <<a, b, c, rel, meet, arith, src, endpoints, union, again, logres>>

----------------------------------------------------------------------------
(* Membership, equality, subset order, intersection *)

Contains(self, value) ==
    LET cond1 == self.inf <= value /\ value <= self.sup
        cond2 == ~(value = self.inf /\ self.left_open)
        cond3 == ~(value = self.sup /\ self.right_open)
    IN cond1 /\ cond2 /\ cond3

Eq(self, other) ==
    /\ self.inf = other.inf
    /\ self.sup = other.sup
    /\ self.left_open = other.left_open
    /\ self.right_open = other.right_open

(* the comparison without its two equality fall-backs *)
LeNoAux(self, other) ==
    Contains(other, self.inf) /\ Contains(other, self.sup)

(* the comparison testing the lower side only *)
LeInfOnly(self, other) ==
    \/ Contains(other, self.inf)
    \/ (self.inf = other.inf /\ self.left_open = other.left_open)

Le(self, other) ==
    LET inf_aux_cond == self.inf = other.inf /\ self.left_open = other.left_open
        sup_aux_cond == self.sup = other.sup /\ self.right_open = other.right_open
    IN /\ (Contains(other, self.inf) \/ inf_aux_cond)
       /\ (Contains(other, self.sup) \/ sup_aux_cond)

ToFlag(p) == IF p THEN "True" ELSE "False"

(* the intersection taking both flags of an overlap from self *)
AndOwnFlags(self, other) ==
    IF Le(self, other) THEN Returned(self)
    ELSE IF Le(other, self) THEN Returned(other)
    ELSE IF Contains(other, self.sup)
    THEN Interval(other.inf, self.sup, AUTO,
                  ToFlag(self.left_open), ToFlag(self.right_open))
    ELSE IF Contains(other, self.inf)
    THEN Interval(self.inf, other.sup, AUTO,
                  ToFlag(self.left_open), ToFlag(self.right_open))
    ELSE Returned(EMPTY)

And(self, other) ==
    IF Le(self, other) THEN Returned(self)
    ELSE IF Le(other, self) THEN Returned(other)
    ELSE IF Contains(other, self.sup)
    THEN Interval(other.inf, self.sup, AUTO,
                  ToFlag(other.left_open), ToFlag(self.right_open))
    ELSE IF Contains(other, self.inf)
    THEN Interval(self.inf, other.sup, AUTO,
                  ToFlag(self.left_open), ToFlag(other.right_open))
    ELSE Returned(EMPTY)

(* x <= x, x <= y, y <= x, y <= z, x <= z and x == y on three Intervals *)
Compare ==
    /\ pc = "idle"
    /\ \E x \in AllIntervals, y \in AllIntervals, z \in AllIntervals :
        /\ pc' = "le"
        /\ a' = x /\ b' = y /\ c' = z
        /\ rel' = [aa |-> Le(x, x), ab |-> Le(x, y), ba |-> Le(y, x),
                   bc |-> Le(y, z), ac |-> Le(x, z), eq |-> Eq(x, y)]
        /\ UNCHANGED <<args, made, meet, arith, src, endpoints, union, again, logres>>

(* x <= y, y <= x, x == y and x & y evaluated on the Intervals x and y *)
AndCall(x, y) ==
    /\ pc' = "and"
    /\ a' = x /\ b' = y
    /\ rel' = [aa |-> Le(x, x), ab |-> Le(x, y), ba |-> Le(y, x),
               bc |-> Le(y, y), ac |-> Le(x, y), eq |-> Eq(x, y)]
    /\ meet' = And(x, y)
    /\ UNCHANGED <<args, made, c, arith, src, endpoints, union, again, logres>>

(* x & y on two Intervals with finite bounds *)
IntersectBounded ==
    /\ pc = "idle"
    /\ \E x \in FiniteIntervals, y \in FiniteIntervals : AndCall(x, y)

(* x & y on two Intervals, unbounded ones included *)
Intersect ==
    /\ pc = "idle"
    /\ \E x \in AllIntervals, y \in AllIntervals : AndCall(x, y)

----------------------------------------------------------------------------
(* utils.bin_op and the operators built on it *)

Operators == {"add", "sub", "mul"}

Apply(operator, x, y) ==
    CASE operator = "add" -> x + y
      [] operator = "sub" -> x - y
      [] operator = "mul" -> x * y

Min(S) == CHOOSE m \in S : \A n \in S : m <= n
Max(S) == CHOOSE m \in S : \A n \in S : m >= n

infsup(self) == {self.inf, self.sup}

bin_op(operator, lhs, rhs) ==
    LET vals == {Apply(operator, x, y) : x \in infsup(lhs), y \in infsup(rhs)}
        left_open == lhs.left_open \/ rhs.left_open
        right_open == lhs.right_open \/ rhs.right_open
    IN Interval(Min(vals), Max(vals), AUTO, ToFlag(left_open), ToFlag(right_open))

(* x + y, x - y, x * y on two Intervals with finite bounds *)
Arithmetic ==
    /\ pc = "idle"
    /\ \E o \in Operators, x \in FiniteIntervals, y \in FiniteIntervals :
        /\ pc' = "bin_op"
        /\ a' = x /\ b' = y
        /\ arith' = [operator |-> o, out |-> bin_op(o, x, y)]
        /\ UNCHANGED <<args, made, c, rel, meet, src, endpoints, union, again, logres>>

----------------------------------------------------------------------------
(* class IntervalUnion *)

(* class EndpointType(IntEnum) *)
INF == -1
SUP == 1

Endpoint(value, type) == [value |-> value, type |-> type]

is_inf(e) == e.type = INF
is_sup(e) == e.type = SUP

(* Interval.endpoints *)
endpoints_of(self) == {Endpoint(self.inf, INF), Endpoint(self.sup, SUP)}

as_closed(self) == Interval(self.inf, self.sup, CLOSED, "None", "None").value[1]

(* sorted(endpoints, key=attrgetter("value")) on a set: the order of two  *)
(* endpoints of the same value is the set's iteration order, so every     *)
(* ascending arrangement is a possible result                             *)
RECURSIVE Sorted(_)
Sorted(E) ==
    IF E = {} THEN {<<>>}
    ELSE LET m == Min({e.value : e \in E})
         IN UNION {{<<e>> \o rest : rest \in Sorted(E \ {e})} :
                      e \in {f \in E : f.value = m}}

get_endpoints(intervals) == Sorted(UNION {endpoints_of(i) : i \in intervals})

(* the loop of IntervalUnion.__init__ from the k-th endpoint on; curr_inf *)
(* is <<>> for None and <<v>> for the number v; calls lists the arguments *)
(* of every Interval(curr_inf, endpoint.value) the loop has evaluated     *)
RECURSIVE sweep(_, _, _, _, _, _)
sweep(unique_intervals, eps, k, intervals, curr_inf, calls) ==
    IF k > Len(eps)
    THEN [raised |-> "none", intervals |-> intervals, calls |-> calls]
    ELSE
      LET endpoint == eps[k]
          in_count == Cardinality({i \in unique_intervals :
                                      Contains(as_closed(i), endpoint.value)})
          restart(ci) == IF ci = <<>> THEN <<endpoint.value>> ELSE ci
      IN IF in_count = 1 /\ is_inf(endpoint)
         THEN sweep(unique_intervals, eps, k + 1, intervals,
                    restart(<<endpoint.value>>), calls)
         ELSE IF in_count = 1 /\ is_sup(endpoint)
         THEN LET called == Append(calls, [curr_inf |-> curr_inf,
                                           value |-> endpoint.value])
              IN IF curr_inf = <<>>
                 THEN [raised |-> "TypeError", intervals |-> intervals,
                       calls |-> called]
                 ELSE LET new == Interval(curr_inf[1], endpoint.value, AUTO,
                                          "None", "None")
                      IN IF new.raised # "none"
                         THEN [raised |-> new.raised, intervals |-> intervals,
                               calls |-> called]
                         ELSE sweep(unique_intervals, eps, k + 1,
                                    Append(intervals, new.value[1]),
                                    restart(<<>>), called)
         ELSE sweep(unique_intervals, eps, k + 1, intervals,
                    restart(curr_inf), calls)

Range(q) == {q[k] : k \in 1..Len(q)}

RECURSIVE Collections(_)
Collections(n) ==
    IF n = 0 THEN {{}}
    ELSE LET smaller == Collections(n - 1)
         IN smaller \cup {s \cup {x} : s \in smaller, x \in UnionInputs}

(* IntervalUnion(intervals) on at most MaxN Intervals with finite bounds *)
BuildUnion ==
    /\ pc = "idle"
    /\ \E intervals \in Collections(MaxN) :
        LET unique_intervals == {as_closed(i) : i \in intervals}
        IN \E eps \in get_endpoints(unique_intervals) :
            /\ pc' = "IntervalUnion"
            /\ src' = intervals
            /\ endpoints' = eps
            /\ union' = sweep(unique_intervals, eps, 1, <<>>, <<>>, <<>>)
            /\ UNCHANGED <<args, made, a, b, c, rel, meet, arith, again, logres>>

(* IntervalUnion(u.intervals) on the intervals of an IntervalUnion u *)
Rebuild ==
    /\ pc = "IntervalUnion"
    /\ union.raised = "none"
    /\ LET unique_intervals == {as_closed(i) : i \in Range(union.intervals)}
       IN \E eps \in get_endpoints(unique_intervals) :
            /\ pc' = "rebuilt"
            /\ endpoints' = eps
            /\ again' = sweep(unique_intervals, eps, 1, <<>>, <<>>, <<>>)
            /\ UNCHANGED <<args, made, a, b, c, rel, meet, arith, src, union, logres>>

----------------------------------------------------------------------------
(* math.log on an Interval *)

(* The arguments of log are -2, 0 and the powers of two up to 2^MaxL; the *)
(* base is 2^e for an exponent e of BaseExps, so base > 1 iff e > 0 and    *)
(* every logarithm of the model is an integer.                             *)
LogVals == {-2, 0} \cup {2 ^ k : k \in 0..MaxL}
BaseExps == {-1, 1}

LogInputs == IntervalsOver(LogVals)

RECURSIVE Log2(_)
Log2(x) == IF x <= 1 THEN 0 ELSE 1 + Log2(x \div 2)

(* math.log(x, base) for base = 2^e, e = 1 or e = -1: log2(x) / e *)
math_log(x, e) == Log2(x) * e

(* math.copysign(1., base - 1) for base = 2^e *)
copysign_one(e) == IF e > 0 THEN 1 ELSE -1

(* the lambda of log: math.log(x, base) if x > 0 else the signed infinity *)
log_at(x, e) == IF x > 0 THEN math_log(x, e) ELSE copysign_one(e) * PosInf

(* utils.ifunc applied to the lambda of log *)
ifunc_log(interval, e) ==
    LET vals == {log_at(v, e) : v \in infsup(interval)}
    IN Interval(Min(vals), Max(vals), AUTO,
                ToFlag(interval.left_open), ToFlag(interval.right_open))

(* i_cpy[idx] = val on an Interval: class Interval defines no __setitem__ *)
setitem(i_cpy, idx, val) == Raised("TypeError")

(* math.log(interval_like, base) on an Interval, which iterates as the    *)
(* one-element sequence of itself                                         *)
log(interval_like, e) ==
    LET new == ifunc_log(interval_like, e)
    IN IF new.raised # "none" THEN Raised(new.raised)
       ELSE setitem(interval_like, 0, new.value[1])

(* log(x, base) on an Interval x *)
LogCall ==
    /\ pc = "idle"
    /\ \E x \in LogInputs, e \in BaseExps :
        /\ pc' = "log"
        /\ a' = x
        /\ logres' = [base_exp |-> e, applied |-> ifunc_log(x, e),
                      out |-> log(x, e)]
        /\ UNCHANGED <<args, made, b, c, rel, meet, arith, src, endpoints,
                       union, again>>

----------------------------------------------------------------------------
(* Specifications: one per component *)

NextCtor == Construct

SpecCtor == Init /\ [][NextCtor]_vars

NextOrder == Compare

SpecOrder == Init /\ [][NextOrder]_vars

NextPair == IntersectBounded \/ Intersect

SpecPair == Init /\ [][NextPair]_vars

NextArith == Arithmetic

SpecArith == Init /\ [][NextArith]_vars

NextUnion == BuildUnion \/ Rebuild

SpecUnion == Init /\ [][NextUnion]_vars

NextLog == LogCall

SpecLog == Init /\ [][NextLog]_vars

----------------------------------------------------------------------------
(* Properties *)

(* the values of x are all values of y *)
Subset(x, y) == \A v \in Points : Contains(x, v) => Contains(y, v)

Covered(intervals, v) == \E i \in intervals : Contains(i, v)

Built == pc = "IntervalUnion" /\ union.raised = "none"

(* C1: the IntervalUnion built from a collection of Intervals with finite  *)
(* bounds contains a value exactly when the closed form of some input      *)
(* contains it.                                                            *)
C1_UnionCoversInputs ==
    Built =>
        \A v \in UnionPoints :
            Covered(Range(union.intervals), v)
                <=> Covered({as_closed(i) : i \in src}, v)

(* C2: the intervals of an IntervalUnion are sorted, disjoint and          *)
(* non-adjacent: each supremum is strictly below the next infimum.         *)
C2_UnionSortedDisjoint ==
    Built =>
        \A k \in 1..(Len(union.intervals) - 1) :
            union.intervals[k].sup < union.intervals[k + 1].inf

(* C3: building an IntervalUnion from the intervals of an IntervalUnion    *)
(* yields the same sequence of intervals.                                  *)
C3_UnionIdempotent ==
    (pc = "rebuilt" /\ again.raised = "none") =>
        again.intervals = union.intervals

(* C4: every Interval the constructor returns is open on a side whose      *)
(* bound is infinite: inf = -infinity implies left_open, sup = +infinity   *)
(* implies right_open.                                                     *)
C4_InfiniteSideOpen ==
    (pc = "Interval" /\ made.raised = "none") =>
        /\ made.value[1].inf = NegInf => made.value[1].left_open
        /\ made.value[1].sup = PosInf => made.value[1].right_open

Recognized == args.endnotes \in {OPENED, CLOSED, RIGHT_OPEN, LEFT_OPEN, AUTO}

(* C5: with a recognized mode the constructor fails exactly when           *)
(* inf > sup, and a failed construction produces no Interval.              *)
C5_FailsIffInfAboveSup ==
    (pc = "Interval" /\ Recognized) =>
        /\ made.raised = "none" <=> args.infimum <= args.supremum
        /\ made.raised = "none" => Len(made.value) = 1
        /\ made.raised # "none" => made.value = <<>>

C5_Witness ==
    /\ pc = "Interval" /\ Recognized
    /\ args.infimum > args.supremum
    /\ args.infimum \in FiniteVals /\ args.supremum \in FiniteVals
    /\ made.raised = "AssertionError"

(* C6: <= on Intervals is reflexive, antisymmetric with respect to the     *)
(* equality of all four fields, and transitive.                            *)
C6_LePartialOrder ==
    pc = "le" =>
        /\ rel.aa
        /\ (rel.ab /\ rel.ba) => rel.eq
        /\ (rel.ab /\ rel.bc) => rel.ac

C6_Witness ==
    /\ pc = "le"
    /\ rel.ab /\ rel.bc /\ rel.ac
    /\ ~rel.ba /\ ~Eq(b, c)
    /\ empty(a) /\ b.left_open /\ c.sup = PosInf

(* C7 as claimed: a <= b holds exactly when every value of a is a value    *)
(* of b, so an empty interval is <= every interval.                        *)
C7_LeIsSubset ==
    pc = "and" => (rel.ab <=> Subset(a, b))

(* C7 as amended: a <= b implies that every value of a is a value of b,    *)
(* and the converse holds for every non-empty a.                           *)
C7_LeIsSubsetOfNonEmpty ==
    pc = "and" =>
        /\ rel.ab => Subset(a, b)
        /\ (~empty(a) /\ Subset(a, b)) => rel.ab

C7_Witness ==
    /\ pc = "and"
    /\ ~empty(a) /\ Subset(a, b) /\ rel.ab /\ ~rel.eq
    /\ a.sup = PosInf /\ a.inf \in FiniteVals /\ b.inf = NegInf

(* C8: a & b contains a value exactly when a and b both contain it, and    *)
(* is an empty interval when a and b share no value.                       *)
C8_AndIsOverlap ==
    pc = "and" =>
        /\ meet.raised = "none"
        /\ \A v \in Points :
              Contains(meet.value[1], v) <=> (Contains(a, v) /\ Contains(b, v))
        /\ (\A v \in Points : ~(Contains(a, v) /\ Contains(b, v)))
              => empty(meet.value[1])

C8_Witness ==
    /\ pc = "and"
    /\ ~rel.ab /\ ~rel.ba
    /\ meet.raised = "none" /\ ~empty(meet.value[1])
    /\ meet.value[1].left_open /\ ~meet.value[1].right_open
    /\ ~a.left_open /\ b.right_open

(* C9: for add, sub and mul on non-empty Intervals A and B with finite     *)
(* bounds, x op y is contained in A op B for all x in A and y in B.        *)
C9_ArithmeticEncloses ==
    (pc = "bin_op" /\ ~empty(a) /\ ~empty(b)) =>
        /\ arith.out.raised = "none"
        /\ \A x \in FinitePoints, y \in FinitePoints :
              (Contains(a, x) /\ Contains(b, y))
                  => Contains(arith.out.value[1], Apply(arith.operator, x, y))

(* C10: with mode Auto and no openness flag, the Interval is left-open     *)
(* exactly when inf is -infinity and right-open exactly when sup is        *)
(* +infinity.                                                              *)
C10_AutoOpenIffInfinite ==
    (/\ pc = "Interval" /\ made.raised = "none"
     /\ args.endnotes = AUTO
     /\ args.left_open = "None" /\ args.right_open = "None") =>
        /\ made.value[1].left_open <=> made.value[1].inf = NegInf
        /\ made.value[1].right_open <=> made.value[1].sup = PosInf


OneFlag ==
    (args.left_open = "None") # (args.right_open = "None")

(* C11: a constructor call that supplies exactly one of left_open and      *)
(* right_open is rejected: it returns no Interval.                         *)
C11_OneFlagRejected ==
    (pc = "Interval" /\ OneFlag) => made.raised # "none"

(* C12: for an Interval x with x.inf <= 0 < x.sup and a base > 1,          *)
(* log(x, base) returns an Interval whose lower bound is -infinity and     *)
(* whose upper bound is the logarithm of x.sup.                            *)
C12_LogAcrossZero ==
    (pc = "log" /\ a.inf <= 0 /\ 0 < a.sup /\ logres.base_exp > 0) =>
        /\ logres.out.raised = "none"
        /\ logres.out.value[1].inf = NegInf
        /\ logres.out.value[1].sup = math_log(a.sup, logres.base_exp)

(* C13: IntervalUnion on Intervals with finite bounds raises nothing, and  *)
(* every Interval(curr_inf, value) the sweep evaluates has a number        *)
(* curr_inf with curr_inf <= value.                                        *)
C13_SweepNeverRaises ==
    pc = "IntervalUnion" =>
        /\ union.raised = "none"
        /\ \A k \in 1..Len(union.calls) :
              /\ union.calls[k].curr_inf # <<>>
              /\ union.calls[k].curr_inf[1] <= union.calls[k].value

====
